---- MODULE Spec2Model ----
(***************************************************************************)
(* Model of the Akrolimb web viewer (src/webviewer/src/main.jsx): the      *)
(* Viewer component's state, the limb Model loader, the mark list, the     *)
(* make-socket request/response cycle and the SocketModel alignment.       *)
(*                                                                         *)
(* Numbers are exact rationals <<n, d>> in lowest terms with d > 0, so     *)
(* that 1/maxDim, 1/serverScale and the 0.5 snap threshold are computed    *)
(* as the code computes them, without rounding.  Nullable values are       *)
(* <<>> (null / undefined) or <<v>>.                                       *)
(***************************************************************************)
EXTENDS Integers, Sequences, FiniteSets, TLC

VARIABLES
    path,             \* Viewer: path state (limb url)
    limbLoads,        \* Model: GLTF loads started and not yet called back
    limbScene,        \* Model: the loaded scene object (also Viewer limbObject)
    limbTransform,    \* Viewer: limbTransform state { scale, center }
    marks,            \* Viewer: marks state
    apiResult,        \* Viewer: apiResult state
    busy,             \* Viewer: busy state
    socketUrl,        \* Viewer: socketUrl state
    socketTransform,  \* Viewer: socketTransform state
    socketZUp,        \* Viewer: socketZUp state
    nudge,            \* Viewer: nudge state (manual offset, mm)
    inflight,         \* callMakeSocket invocations awaiting their fetch, each
                      \* flagged once a later invocation has started
    socketLoad,       \* SocketModel: props captured by the latest STL load
    mesh,             \* SocketModel: mesh state (placement of the socket)
    showLimb,         \* Viewer: showLimb state (Model mounted or not)
    lastObjectUrlRef, \* Model: lastObjectUrlRef.current of the mounted Model
    urlEvents,        \* URL.createObjectURL / URL.revokeObjectURL calls so far
    lastOp            \* name of the last mark operation (mark-list runs only)

vars ==
    <<path, limbLoads, limbScene, limbTransform, marks, apiResult, busy,
      socketUrl, socketTransform, socketZUp, nudge, inflight, socketLoad,
      mesh, showLimb, lastObjectUrlRef, urlEvents, lastOp>>

(***************************************************************************)
(* Bounds of the model.                                                    *)
(***************************************************************************)
MaxMarks == 3

\* Files picked with the file input in one run.
MaxPicks == 3

(***************************************************************************)
(* Nullable values.                                                        *)
(***************************************************************************)
None == <<>>

Some(v) == <<v>>

IsSome(o) == o # <<>>

Val(o) == o[1]

(***************************************************************************)
(* Exact rational arithmetic.                                              *)
(***************************************************************************)
Abs(n) == IF n < 0 THEN -n ELSE n

RECURSIVE GCD(_, _)
GCD(a, b) == IF b = 0 THEN a ELSE GCD(b, a % b)

Rat(n, d) ==
    LET g == GCD(Abs(n), Abs(d))
        s == IF d < 0 THEN -1 ELSE 1
    IN  <<(s * n) \div g, (s * d) \div g>>

Zero == <<0, 1>>

One == <<1, 1>>

RAdd(a, b) ==
    LET g == GCD(a[2], b[2])
    IN  Rat(a[1] * (b[2] \div g) + b[1] * (a[2] \div g), (a[2] \div g) * b[2])

RNeg(a) == <<-a[1], a[2]>>

RSub(a, b) == RAdd(a, RNeg(b))

RMul(a, b) ==
    LET g == GCD(Abs(a[1]), b[2])
        h == GCD(Abs(b[1]), a[2])
    IN  Rat((a[1] \div g) * (b[1] \div h), (a[2] \div h) * (b[2] \div g))

RDiv(a, b) == RMul(a, Rat(b[2], b[1]))

RLt(a, b) ==
    LET g == GCD(a[2], b[2])
    IN  a[1] * (b[2] \div g) < b[1] * (a[2] \div g)

RMax(a, b) == IF RLt(a, b) THEN b ELSE a

RMin(a, b) == IF RLt(b, a) THEN b ELSE a

\* JavaScript a || b on numbers: 0 is falsy.
JsOr(a, b) == IF a = Zero THEN b ELSE a

(***************************************************************************)
(* THREE.Vector3 operations used by the viewer.                            *)
(***************************************************************************)
V3(x, y, z) == <<Rat(x, 1), Rat(y, 1), Rat(z, 1)>>

Origin == <<Zero, Zero, Zero>>

VAdd(a, b) == <<RAdd(a[1], b[1]), RAdd(a[2], b[2]), RAdd(a[3], b[3])>>

VSub(a, b) == <<RSub(a[1], b[1]), RSub(a[2], b[2]), RSub(a[3], b[3])>>

VMulScalar(v, s) == <<RMul(v[1], s), RMul(v[2], s), RMul(v[3], s)>>

VLengthSq(v) == RAdd(RMul(v[1], v[1]), RAdd(RMul(v[2], v[2]), RMul(v[3], v[3])))

VMin(a, b) == <<RMin(a[1], b[1]), RMin(a[2], b[2]), RMin(a[3], b[3])>>

VMax(a, b) == <<RMax(a[1], b[1]), RMax(a[2], b[2]), RMax(a[3], b[3])>>

\* rotX90 = (v) => new THREE.Vector3(v.x, v.z, -v.y)
rotX90(v) == <<v[1], v[3], RNeg(v[2])>>

\* Object rotation set by m.rotation.x = Math.PI / 2: a rotation by +90
\* degrees about X takes (x, y, z) to (x, -z, y).
RotationX(v) == <<v[1], RNeg(v[3]), v[2]>>

(***************************************************************************)
(* THREE.Object3D placement.  An object is [position, scale, rotX]; its    *)
(* world matrix is compose(position, rotation, scale), so a local point p  *)
(* is shown at position + rotation(scale * p).                             *)
(***************************************************************************)
LocalToWorld(obj, p) ==
    LET sp == VMulScalar(p, obj.scale)
    IN  VAdd(obj.position, IF obj.rotX THEN RotationX(sp) ELSE sp)

BoxSize(box) == VSub(box.max, box.min)

BoxCenter(box) == VMulScalar(VAdd(box.min, box.max), Rat(1, 2))

\* new THREE.Box3().setFromObject(obj): the world-space box of the
\* object's geometry box.
SetFromObject(obj, box) ==
    LET a == LocalToWorld(obj, box.min)
        b == LocalToWorld(obj, box.max)
    IN  [min |-> VMin(a, b), max |-> VMax(a, b)]

(***************************************************************************)
(* Limb files the viewer can be pointed at, with the bounding box of the   *)
(* GLB scene in its native units.                                          *)
(***************************************************************************)
DefaultPath == "/05_09_2025.glb"

LimbUrls == {DefaultPath, "/centered.glb", "/point.glb"}

LimbGeometry(url) ==
    IF url = DefaultPath
    THEN [min |-> V3(-50, -50, -50), max |-> V3(50, 50, 150)]
    ELSE IF url = "/centered.glb"
    THEN [min |-> V3(-50, -50, -100), max |-> V3(50, 50, 100)]
    ELSE [min |-> V3(3, 3, 3), max |-> V3(3, 3, 3)]

\* Model, GLTF load callback: scale and center from the scene's box.
Normalization(box) ==
    LET size == BoxSize(box)
        maxDim == RMax(size[1], RMax(size[2], size[3]))
    IN  [scale |-> RDiv(One, JsOr(maxDim, One)), center |-> BoxCenter(box)]

\* Model, GLTF load callback: s.position.sub(center); s.scale.setScalar(scale)
\* applied to the freshly loaded scene (position 0, scale 1, no rotation).
PlacedScene(box) ==
    LET t == Normalization(box)
    IN  [position |-> VSub(Origin, t.center), scale |-> t.scale,
         rotX |-> FALSE, box |-> box]

(***************************************************************************)
(* Object URLs of picked limb files.  urlEvents is the sequence of         *)
(* <<"create", url>> and <<"revoke", url>> calls made so far.              *)
(***************************************************************************)
\* String.prototype.startsWith.
StartsWith(s, prefix) ==
    /\ Len(s) >= Len(prefix)
    /\ SubSeq(s, 1, Len(prefix)) = prefix

\* The k-th URL returned by URL.createObjectURL.
ObjectUrl(k) == "blob:" \o ToString(k)

CreatedUrls(events) ==
    { events[i][2] : i \in { j \in DOMAIN events : events[j][1] = "create" } }

Revocations(events, u) ==
    Cardinality({ i \in DOMAIN events : events[i] = <<"revoke", u>> })

\* Model's effect: `if (!url) return`.
EffectRuns(url) == url # ""

\* Model's effect: the guard of URL.revokeObjectURL(lastObjectUrlRef.current).
EffectRevokes(url, ref) ==
    /\ EffectRuns(url)
    /\ IsSome(ref)
    /\ StartsWith(Val(ref), "blob:")

\* Model's effect on [url], run by a mounted Model whose ref holds `ref`:
\* revoke the previous object URL, start the load, remember the url.
ModelEffect(url, ref, events) ==
    /\ urlEvents' = IF EffectRevokes(url, ref)
                    THEN Append(events, <<"revoke", Val(ref)>>)
                    ELSE events
    /\ limbLoads' = IF EffectRuns(url) THEN limbLoads \cup {url} ELSE limbLoads
    /\ lastObjectUrlRef' = IF EffectRuns(url) THEN Some(url) ELSE ref

(***************************************************************************)
(* Marks.                                                                  *)
(***************************************************************************)
\* What the user can have in the mark controls when clicking: the mark type,
\* the radius and amount text fields as parsed by parseFloat (<<>> is NaN)
\* and the corner of the limb's box the ray hits.
MarkInputs ==
    { [type |-> "pad", radius |-> Some(Rat(20, 1)), amount |-> Some(Zero),
       hit |-> "max"],
      [type |-> "relief", radius |-> None, amount |-> Some(Rat(1, 2)),
       hit |-> "min"] }

\* parseFloat(text) || dflt
ParseFloatOr(field, dflt) ==
    IF field = None THEN dflt ELSE JsOr(Val(field), dflt)

\* intersects[0].point: the world-space position of the hit surface point.
HitPoint(scene, hit) ==
    LocalToWorld(scene, IF hit = "min" THEN scene.box.min ELSE scene.box.max)

\* onPlaceMark: the mark object built from the controls and the hit point.
NewMark(in, p) ==
    [type |-> in.type, vpos |-> p,
     radius_mm |-> ParseFloatOr(in.radius, Rat(10, 1)),
     amount_mm |-> ParseFloatOr(in.amount, Rat(2, 1))]

\* Array.prototype.slice(begin, end): negative indices count from the end,
\* both are clamped to the array.
JsSlice(s, begin, end) ==
    LET n == Len(s)
        clamp(k) == IF k < 0 THEN (IF n + k < 0 THEN 0 ELSE n + k)
                    ELSE (IF k > n THEN n ELSE k)
        b == clamp(begin)
        e == clamp(end)
    IN  IF e <= b THEN <<>> ELSE SubSeq(s, b + 1, e)

\* Mutation: drops the first mark instead of the last.
SliceFirstOff(prev) == JsSlice(prev, 1, Len(prev))

\* popMark: prev => prev.slice(0, -1)
PopResult(prev) == JsSlice(prev, 0, -1)

\* onPlaceMark: prev => [...prev, m]
AppendResult(prev, m) == prev \o <<m>>

\* clearMarks: setMarks([])
ClearResult(prev) == <<>>

(***************************************************************************)
(* callMakeSocket: the marks payload.                                      *)
(***************************************************************************)
\* limbTransform?.scale ?? 1.0
UnitScaleOf(lt) == IF IsSome(lt) THEN Val(lt).scale ELSE One

\* limbTransform?.center ?? new THREE.Vector3(0,0,0)
UnitCenterOf(lt) == IF IsSome(lt) THEN Val(lt).center ELSE Origin

\* apiResult?.scale_applied ?? 1.0 (?? keeps a 0)
ExportServerScale(api) ==
    IF IsSome(api) /\ IsSome(Val(api).scale_applied)
    THEN Val(Val(api).scale_applied)
    ELSE One

\* toMm: viewer -> native -> mm
toMm(v, unitScale, unitCenter, serverScale) ==
    LET native == VAdd(VMulScalar(v, RDiv(One, unitScale)), unitCenter)
    IN  VMulScalar(native, serverScale)

\* Mutation: toMm scaling and translating the mark's own vector.
ToMmInPlace(v, unitScale, unitCenter, serverScale) ==
    toMm(v, unitScale, unitCenter, serverScale)

\* The vector handed to toMm, after the call: new THREE.Vector3().copy(v)
\* makes the arithmetic run on a fresh vector.
ToMmArgument(v, unitScale, unitCenter, serverScale) == v

\* marks.map(m => ({ type, center_mm, radius_mm, amount_mm }))
ExportPayload(ms, lt, api) ==
    [i \in 1..Len(ms) |->
        [type |-> ms[i].type,
         center_mm |-> toMm(ms[i].vpos, UnitScaleOf(lt), UnitCenterOf(lt),
                            ExportServerScale(api)),
         radius_mm |-> ms[i].radius_mm,
         amount_mm |-> ms[i].amount_mm]]

\* The marks array once the payload has been built from it.
MarksAfterExport(ms, lt, api) ==
    [i \in 1..Len(ms) |->
        [ms[i] EXCEPT !.vpos =
            ToMmArgument(ms[i].vpos, UnitScaleOf(lt), UnitCenterOf(lt),
                         ExportServerScale(api))]]

\* viewerRadius: (apiResult?.scale_applied ?? 1.0) || 1.0, the divisor of
\* the radius.
RadiusServerScale(api) == JsOr(ExportServerScale(api), One)

\* viewerRadius(radius_mm): the display radius of a mark's sphere.
viewerRadius(radius_mm, lt, api) ==
    RMul(RDiv(radius_mm, RadiusServerScale(api)), UnitScaleOf(lt))

(***************************************************************************)
(* make-socket responses.                                                  *)
(***************************************************************************)
SocketUrls == {"/static/out/a.stl", "/static/out/b.stl"}

Json(scale, url, center, delta) ==
    [error |-> FALSE, markings |-> FALSE, scale_applied |-> scale,
     socket_trimmed_url |-> url, limb_center_mm |-> center, delta_mm |-> delta]

\* Bodies the service can answer with.
Responses ==
    { Json(Some(One), Some("/static/out/a.stl"), Some(V3(0, 0, 50)), None),
      Json(Some(Rat(2, 1)), Some("/static/out/b.stl"), None, Some(V3(0, 0, 4))),
      Json(None, Some("/static/out/a.stl"), None, None),
      Json(Some(Zero), Some("/static/out/a.stl"), None, None) }

\* { error: e.message || 'API call failed' }
ErrorResult ==
    [error |-> TRUE, markings |-> FALSE, scale_applied |-> None,
     socket_trimmed_url |-> None, limb_center_mm |-> None, delta_mm |-> None]

\* json.scale_applied || 1.0
ResponseServerScale(json) ==
    IF IsSome(json.scale_applied) THEN JsOr(Val(json.scale_applied), One) ELSE One

\* if (json.scale_applied || limbTransform) setSocketTransform({...}):
\* the socketTransform state after the response, prev being the state before.
TransformAfterResponse(json, lt, prev) ==
    IF (IsSome(json.scale_applied) /\ Val(json.scale_applied) # Zero) \/ IsSome(lt)
    THEN Some([serverScale |-> Some(ResponseServerScale(json)),
               unitScale |-> Some(UnitScaleOf(lt)),
               unitCenter |-> Some(UnitCenterOf(lt)),
               limbCenterMm |-> json.limb_center_mm,
               deltaMm |-> json.delta_mm])
    ELSE prev

\* if (json.socket_trimmed_url) setSocketUrl(u)
UrlAfterResponse(json, prev) ==
    IF IsSome(json.socket_trimmed_url) THEN json.socket_trimmed_url ELSE prev

\* Mutation: marking switched off while a request runs.
DisabledWhileBusy == busy

\* Undo and Clear buttons carry no disabled attribute, and MarkingController
\* listens whenever mark mode is on: none of them looks at busy.
MarkingDisabled == FALSE

\* Mutation: the Generate button left enabled while a request runs.
NeverDisabled == FALSE

\* <button disabled={busy} ...>Generate Socket
GenerateDisabled == busy

\* <button disabled={busy || marks.length===0 || !apiResult} ...>Apply Marks
ApplyDisabled == busy \/ Len(marks) = 0 \/ apiResult = None

(***************************************************************************)
(* SocketModel: placement of the loaded STL.                               *)
(***************************************************************************)
\* Bounding box of each socket STL, in the file's own units (mm).
SocketGeometry(url) ==
    IF url = "/static/out/a.stl"
    THEN [min |-> V3(-60, -60, -58), max |-> V3(60, 60, 62)]
    ELSE [min |-> V3(-60, -60, 0), max |-> V3(60, 60, 120)]

\* transform={{ ...(socketTransform||{}), extraOffsetMm: nudge }}
TransformProp(st, off) ==
    IF IsSome(st)
    THEN [serverScale |-> Val(st).serverScale, unitScale |-> Val(st).unitScale,
          unitCenter |-> Val(st).unitCenter, limbCenterMm |-> Val(st).limbCenterMm,
          deltaMm |-> Val(st).deltaMm, extraOffsetMm |-> off]
    ELSE [serverScale |-> None, unitScale |-> None, unitCenter |-> None,
          limbCenterMm |-> None, deltaMm |-> None, extraOffsetMm |-> off]

\* transform && (transform.serverScale || transform.serverScale === 0)
HasServerScale(t) == IsSome(t.serverScale)

\* transform && transform.unitScale && transform.unitCenter
HasUnit(t) == IsSome(t.unitScale) /\ Val(t.unitScale) # Zero /\ IsSome(t.unitCenter)

\* hasServerScale ? (transform.serverScale || 1.0) : 1.0
AlignServerScale(t) ==
    IF HasServerScale(t) THEN JsOr(Val(t.serverScale), One) ELSE One

\* serverScale ? (1.0 / serverScale) : 1.0
InvServer(t) ==
    IF AlignServerScale(t) # Zero THEN RDiv(One, AlignServerScale(t)) ELSE One

\* The threshold of the residual snap: postCenter.length() < 0.5
SnapThreshold == Rat(1, 2)

\* Mutation: the snap applied whatever the residual is.
SnapAlways(pos, postCenter) == VSub(pos, postCenter)

\* if (postCenter.length() < 0.5) m.position.sub(postCenter)
SnapPosition(pos, postCenter) ==
    IF RLt(VLengthSq(postCenter), RMul(SnapThreshold, SnapThreshold))
    THEN VSub(pos, postCenter)
    ELSE pos

\* The user nudge in display units: rotate if Z-up, then
\* multiplyScalar(invServer), then multiplyScalar(unitScale).
NudgeToDisplay(off, zUp, invServer, unitScale) ==
    VMulScalar(VMulScalar(IF zUp THEN rotX90(off) ELSE off, invServer), unitScale)

\* Mutation: the nudge added to the position before the snap looks at it.
NudgeThenSnap(pos, scale, zUp, box, off) ==
    LET moved == VAdd(pos, off)
        postCenter ==
            BoxCenter(SetFromObject([position |-> moved, scale |-> scale,
                                     rotX |-> zUp], box))
    IN  [preSnap |-> pos, postCenter |-> postCenter,
         postSnap |-> SnapPosition(moved, postCenter),
         position |-> SnapPosition(moved, postCenter)]

\* Residual snap, then the nudge: pos is the position after frame alignment
\* and off the nudge already converted to display units.
SnapThenNudge(pos, scale, zUp, box, off) ==
    LET postCenter ==
            BoxCenter(SetFromObject([position |-> pos, scale |-> scale,
                                     rotX |-> zUp], box))
        snapped == SnapPosition(pos, postCenter)
    IN  [preSnap |-> pos, postCenter |-> postCenter, postSnap |-> snapped,
         position |-> VAdd(snapped, off)]

\* Origin correction: delta_mm if present, else limb_center_mm, scaled by
\* invServer, rotated if Z-up and subtracted from the position.
OriginCorrection(t, zUp) ==
    LET v == IF IsSome(t.deltaMm) THEN Val(t.deltaMm)
             ELSE IF IsSome(t.limbCenterMm) THEN Val(t.limbCenterMm)
             ELSE Origin
        n == VMulScalar(v, InvServer(t))
    IN  VSub(Origin, IF zUp THEN rotX90(n) ELSE n)

\* The STL load callback, branch hasServerScale || hasUnit.
AlignedMesh(url, t, zUp) ==
    LET unitCenter == IF HasUnit(t) THEN Val(t.unitCenter) ELSE Origin
        unitScale == IF HasUnit(t) THEN Val(t.unitScale) ELSE One
        scale1 == IF AlignServerScale(t) # One THEN InvServer(t) ELSE One
        pos == VSub(OriginCorrection(t, zUp), unitCenter)
        scale == RMul(scale1, unitScale)
        r == SnapThenNudge(pos, scale, zUp, SocketGeometry(url),
                           NudgeToDisplay(t.extraOffsetMm, zUp, InvServer(t),
                                          unitScale))
    IN  [url |-> url, transform |-> t, aligned |-> TRUE, rotX |-> zUp,
         scale |-> scale, position |-> r.position, preSnap |-> r.preSnap,
         postCenter |-> r.postCenter, postSnap |-> r.postSnap]

\* The STL load callback, fallback branch: normalize by its own box.
FallbackMesh(url, t, zUp) ==
    LET box == SetFromObject([position |-> Origin, scale |-> One, rotX |-> zUp],
                             SocketGeometry(url))
        size == BoxSize(box)
        maxDim == RMax(size[1], RMax(size[2], size[3]))
        pos == VSub(Origin, BoxCenter(box))
    IN  [url |-> url, transform |-> t, aligned |-> FALSE, rotX |-> zUp,
         scale |-> RDiv(One, JsOr(maxDim, One)),
         position |-> pos, preSnap |-> pos, postCenter |-> Origin,
         postSnap |-> pos]

\* The STL load callback: the mesh handed to setMesh.
LoadedMesh(url, t, zUp) ==
    IF HasServerScale(t) \/ HasUnit(t)
    THEN AlignedMesh(url, t, zUp)
    ELSE FallbackMesh(url, t, zUp)

\* What a render hands to SocketModel: {showSocket && socketUrl && <SocketModel
\* url transform zUp />}; <<>> when the component is not rendered.
SocketProps(url, st, off, zUp) ==
    IF IsSome(url)
    THEN Some([url |-> Val(url), transform |-> TransformProp(st, off), zUp |-> zUp])
    ELSE None

(***************************************************************************)
(* State machine.                                                          *)
(***************************************************************************)
\* A render of Viewer: SocketModel's effect depends on the transform prop,
\* a fresh object on every render, so each render starts a new STL load with
\* the props of that render; SocketModel and its mesh state are dropped when
\* socketUrl is null.
ViewerRender ==
    /\ socketLoad' = SocketProps(socketUrl', socketTransform', nudge', socketZUp')
    /\ mesh' = IF IsSome(socketUrl') THEN mesh ELSE None

\* State after construction: Viewer's useState defaults, Model mounted and
\* its effect having started the load of the default path.
Init ==
    /\ path = DefaultPath
    /\ limbLoads = {DefaultPath}
    /\ limbScene = None
    /\ limbTransform = None
    /\ marks = <<>>
    /\ apiResult = None
    /\ busy = FALSE
    /\ socketUrl = None
    /\ socketTransform = None
    /\ socketZUp = TRUE
    /\ nudge = Origin
    /\ inflight = {}
    /\ socketLoad = None
    /\ mesh = None
    /\ showLimb = TRUE
    /\ lastObjectUrlRef = Some(DefaultPath)
    /\ urlEvents = <<>>
    /\ lastOp = "none"

\* setPath(url) from the path input; a mounted Model's effect on [url]
\* starts the load.  Setting the same path again renders nothing.
SetPath(u) ==
    /\ u # path
    /\ path' = u
    /\ IF showLimb
       THEN ModelEffect(u, lastObjectUrlRef, urlEvents)
       ELSE UNCHANGED <<limbLoads, lastObjectUrlRef, urlEvents>>
    /\ UNCHANGED showLimb
    /\ UNCHANGED <<limbScene, limbTransform, marks, apiResult, busy, socketUrl,
                   socketTransform, socketZUp, nudge, inflight>>
    /\ ViewerRender

\* onPickFile with a file chosen: URL.createObjectURL(file), setPath(url),
\* then the effect of a mounted Model.
PickFile ==
    LET url == ObjectUrl(Cardinality(CreatedUrls(urlEvents)) + 1)
        created == Append(urlEvents, <<"create", url>>)
    IN  /\ Cardinality(CreatedUrls(urlEvents)) < MaxPicks
        /\ path' = url
        /\ IF showLimb
           THEN ModelEffect(url, lastObjectUrlRef, created)
           ELSE /\ urlEvents' = created
                /\ UNCHANGED <<limbLoads, lastObjectUrlRef>>
        /\ UNCHANGED showLimb
        /\ UNCHANGED <<limbScene, limbTransform, marks, apiResult, busy,
                       socketUrl, socketTransform, socketZUp, nudge, inflight>>
        /\ ViewerRender

\* "Limb" checkbox: hiding unmounts Model (its ref is dropped, nothing is
\* cleaned up); showing mounts a new Model, whose ref starts null and whose
\* effect runs for the current path.
SetShowLimb ==
    /\ showLimb' = ~showLimb
    /\ IF showLimb'
       THEN ModelEffect(path, None, urlEvents)
       ELSE /\ lastObjectUrlRef' = None
            /\ UNCHANGED <<limbLoads, urlEvents>>
    /\ UNCHANGED <<path, limbScene, limbTransform, marks, apiResult, busy,
                   socketUrl, socketTransform, socketZUp, nudge, inflight>>
    /\ ViewerRender

\* Model: GLTF load callback (setScene, setNorm, onTransform, onObjectReady).
LimbLoaded(u) ==
    /\ u \in limbLoads
    /\ limbLoads' = limbLoads \ {u}
    /\ limbScene' = Some(PlacedScene(LimbGeometry(u)))
    /\ limbTransform' = Some(Normalization(LimbGeometry(u)))
    /\ UNCHANGED <<showLimb, lastObjectUrlRef, urlEvents>>
    /\ UNCHANGED <<path, marks, apiResult, busy, socketUrl, socketTransform,
                   socketZUp, nudge, inflight>>
    /\ ViewerRender

\* Model: GLTF error callback (setError only; Viewer is not rendered again).
LimbLoadFailed(u) ==
    /\ u \in limbLoads
    /\ limbLoads' = limbLoads \ {u}
    /\ UNCHANGED <<showLimb, lastObjectUrlRef, urlEvents>>
    /\ UNCHANGED <<path, limbScene, limbTransform, marks, apiResult, busy,
                   socketUrl, socketTransform, socketZUp, nudge, inflight,
                   socketLoad, mesh>>

\* MarkingController.handleDown with a hit, then onPlaceMark.
PlaceMark(in) ==
    /\ ~MarkingDisabled
    /\ IsSome(limbScene)
    /\ Len(marks) < MaxMarks
    /\ marks' = AppendResult(marks, NewMark(in, HitPoint(Val(limbScene), in.hit)))
    /\ UNCHANGED <<showLimb, lastObjectUrlRef, urlEvents>>
    /\ UNCHANGED <<path, limbLoads, limbScene, limbTransform, apiResult, busy,
                   socketUrl, socketTransform, socketZUp, nudge, inflight>>
    /\ ViewerRender

\* Undo button.
PopMark ==
    /\ ~MarkingDisabled
    /\ marks' = PopResult(marks)
    /\ UNCHANGED <<showLimb, lastObjectUrlRef, urlEvents>>
    /\ UNCHANGED <<path, limbLoads, limbScene, limbTransform, apiResult, busy,
                   socketUrl, socketTransform, socketZUp, nudge, inflight>>
    /\ ViewerRender

\* Clear button.
ClearMarks ==
    /\ ~MarkingDisabled
    /\ marks' = ClearResult(marks)
    /\ UNCHANGED <<showLimb, lastObjectUrlRef, urlEvents>>
    /\ UNCHANGED <<path, limbLoads, limbScene, limbTransform, apiResult, busy,
                   socketUrl, socketTransform, socketZUp, nudge, inflight>>
    /\ ViewerRender

\* callMakeSocket up to the fetch of /api/make-socket: the form data is built
\* from the marks, limbTransform and apiResult of the render the handler was
\* created in; the code after the await still reads that limbTransform.
CallMakeSocket(includeMarks) ==
    /\ busy' = TRUE
    /\ apiResult' = None
    /\ socketUrl' = None
    /\ inflight' = { [r EXCEPT !.superseded = TRUE] : r \in inflight } \cup
          { [superseded |-> FALSE,
             marksJson |-> IF includeMarks /\ Len(marks) > 0
                           THEN Some(ExportPayload(marks, limbTransform, apiResult))
                           ELSE None,
             limbTransform |-> limbTransform] }
    /\ marks' = IF includeMarks /\ Len(marks) > 0
                THEN MarksAfterExport(marks, limbTransform, apiResult)
                ELSE marks
    /\ UNCHANGED <<showLimb, lastObjectUrlRef, urlEvents>>
    /\ UNCHANGED <<path, limbLoads, limbScene, limbTransform, socketTransform,
                   socketZUp, nudge>>
    /\ ViewerRender

\* Generate Socket button.
GenerateSocket ==
    /\ ~GenerateDisabled
    /\ CallMakeSocket(FALSE)

\* Apply Marks button.
ApplyMarks ==
    /\ ~ApplyDisabled
    /\ CallMakeSocket(TRUE)

\* callMakeSocket after the fetch: setApiResult(json), setSocketUrl,
\* setSocketTransform, finally setBusy(false).
MakeSocketResponse(r, json) ==
    /\ r \in inflight
    /\ inflight' = inflight \ {r}
    /\ apiResult' = Some(json)
    /\ socketUrl' = UrlAfterResponse(json, socketUrl)
    /\ socketTransform' = TransformAfterResponse(json, r.limbTransform, socketTransform)
    /\ busy' = FALSE
    /\ UNCHANGED <<showLimb, lastObjectUrlRef, urlEvents>>
    /\ UNCHANGED <<path, limbLoads, limbScene, limbTransform, marks, socketZUp,
                   nudge>>
    /\ ViewerRender

\* callMakeSocket: a fetch that throws; catch, then finally setBusy(false).
MakeSocketFailed(r) ==
    /\ r \in inflight
    /\ inflight' = inflight \ {r}
    /\ apiResult' = Some(ErrorResult)
    /\ busy' = FALSE
    /\ UNCHANGED <<showLimb, lastObjectUrlRef, urlEvents>>
    /\ UNCHANGED <<path, limbLoads, limbScene, limbTransform, marks, socketUrl,
                   socketTransform, socketZUp, nudge>>
    /\ ViewerRender

\* detectMarkings, once its fetch has settled: a markings (or markings_error)
\* key is merged into apiResult; the button is never disabled.
DetectMarkingsDone ==
    /\ apiResult' =
          Some([(IF IsSome(apiResult) THEN Val(apiResult)
                 ELSE Json(None, None, None, None)) EXCEPT !.markings = TRUE])
    /\ apiResult' # apiResult
    /\ UNCHANGED <<showLimb, lastObjectUrlRef, urlEvents>>
    /\ UNCHANGED <<path, limbLoads, limbScene, limbTransform, marks, busy,
                   socketUrl, socketTransform, socketZUp, nudge, inflight>>
    /\ ViewerRender

\* SocketModel: STL load callback, setMesh(m).
SocketLoaded ==
    /\ IsSome(socketLoad)
    /\ mesh' = Some(LoadedMesh(Val(socketLoad).url, Val(socketLoad).transform,
                               Val(socketLoad).zUp))
    /\ socketLoad' = None
    /\ UNCHANGED <<showLimb, lastObjectUrlRef, urlEvents>>
    /\ UNCHANGED <<path, limbLoads, limbScene, limbTransform, marks, apiResult,
                   busy, socketUrl, socketTransform, socketZUp, nudge, inflight>>

\* Values the nudge inputs are given (mm).
NudgeValues == {Origin, V3(1, 2, 3)}

\* Nudge inputs.
SetNudge(v) ==
    /\ v # nudge
    /\ nudge' = v
    /\ UNCHANGED <<showLimb, lastObjectUrlRef, urlEvents>>
    /\ UNCHANGED <<path, limbLoads, limbScene, limbTransform, marks, apiResult,
                   busy, socketUrl, socketTransform, socketZUp, inflight>>
    /\ ViewerRender

\* "STL is Z-up" checkbox.
SetSocketZUp ==
    /\ socketZUp' = ~socketZUp
    /\ UNCHANGED <<showLimb, lastObjectUrlRef, urlEvents>>
    /\ UNCHANGED <<path, limbLoads, limbScene, limbTransform, marks, apiResult,
                   busy, socketUrl, socketTransform, nudge, inflight>>
    /\ ViewerRender

\* The viewer with the limb it starts with: every handler but the change of
\* path.
Next ==
    \/ \E u \in LimbUrls : LimbLoaded(u) /\ UNCHANGED lastOp
    \/ \E u \in LimbUrls : LimbLoadFailed(u) /\ UNCHANGED lastOp
    \/ \E in \in MarkInputs : PlaceMark(in) /\ UNCHANGED lastOp
    \/ PopMark /\ UNCHANGED lastOp
    \/ ClearMarks /\ UNCHANGED lastOp
    \/ GenerateSocket /\ UNCHANGED lastOp
    \/ ApplyMarks /\ UNCHANGED lastOp
    \/ \E r \in inflight, json \in Responses :
          MakeSocketResponse(r, json) /\ UNCHANGED lastOp
    \/ \E r \in inflight : MakeSocketFailed(r) /\ UNCHANGED lastOp
    \/ DetectMarkingsDone /\ UNCHANGED lastOp
    \/ SocketLoaded /\ UNCHANGED lastOp
    \/ SetSocketZUp /\ UNCHANGED lastOp
    \/ \E v \in NudgeValues : SetNudge(v) /\ UNCHANGED lastOp

Spec == Init /\ [][Next]_vars

(***************************************************************************)
(* The limb view and the mark list: changes of limb and the three mark     *)
(* operations, lastOp naming the operation of each step.                   *)
(***************************************************************************)
NextLimb ==
    \/ \E u \in LimbUrls : SetPath(u) /\ lastOp' = "setPath"
    \/ \E u \in LimbUrls : LimbLoaded(u) /\ lastOp' = "limbLoaded"
    \/ \E u \in LimbUrls : LimbLoadFailed(u) /\ lastOp' = "limbLoadFailed"
    \/ \E in \in MarkInputs : PlaceMark(in) /\ lastOp' = "append"
    \/ PopMark /\ lastOp' = "removeLast"
    \/ ClearMarks /\ lastOp' = "clear"

SpecLimb == Init /\ [][NextLimb]_vars

(***************************************************************************)
(* The socket view on its own: the viewer after one answered make-socket   *)
(* request, for every limb (or none yet loaded), response body, axis flag  *)
(* and nudge, followed by STL loads and changes of the flag and the nudge. *)
(***************************************************************************)
AlignResponses ==
    { Json(s, Some(u), c, d) :
        s \in {None, Some(Zero), Some(One), Some(Rat(2, 1)), Some(Rat(1, 2))},
        u \in SocketUrls,
        c \in {None, Some(V3(0, 0, 50))},
        d \in {None, Some(V3(0, 0, 4))} }

InitAlign ==
    \E limb \in {None} \cup {Some(u) : u \in LimbUrls},
       json \in AlignResponses, z \in BOOLEAN, v \in NudgeValues :
        /\ path = IF IsSome(limb) THEN Val(limb) ELSE DefaultPath
        /\ limbLoads = IF IsSome(limb) THEN {} ELSE {DefaultPath}
        /\ limbScene = IF IsSome(limb)
                       THEN Some(PlacedScene(LimbGeometry(Val(limb)))) ELSE None
        /\ limbTransform = IF IsSome(limb)
                           THEN Some(Normalization(LimbGeometry(Val(limb))))
                           ELSE None
        /\ marks = <<>>
        /\ apiResult = Some(json)
        /\ busy = FALSE
        /\ socketUrl = UrlAfterResponse(json, None)
        /\ socketTransform = TransformAfterResponse(json, limbTransform, None)
        /\ socketZUp = z
        /\ nudge = v
        /\ inflight = {}
        /\ socketLoad = SocketProps(socketUrl, socketTransform, nudge, socketZUp)
        /\ mesh = None
        /\ showLimb = TRUE
        /\ lastObjectUrlRef = Some(path)
        /\ urlEvents = <<>>
        /\ lastOp = "none"

NextAlign ==
    \/ SocketLoaded /\ UNCHANGED lastOp
    \/ SetSocketZUp /\ UNCHANGED lastOp
    \/ \E v \in NudgeValues : SetNudge(v) /\ UNCHANGED lastOp

SpecAlign == InitAlign /\ [][NextAlign]_vars

(***************************************************************************)
(* The limb source on its own: file picks, edits of the path input (back   *)
(* to the default asset, or cleared), the Limb checkbox, and the GLTF      *)
(* loads these start.                                                      *)
(***************************************************************************)
PathEdits == {DefaultPath, ""}

NextSource ==
    \/ PickFile /\ UNCHANGED lastOp
    \/ \E u \in PathEdits : SetPath(u) /\ UNCHANGED lastOp
    \/ SetShowLimb /\ UNCHANGED lastOp
    \/ \E u \in limbLoads : LimbLoaded(u) /\ UNCHANGED lastOp
    \/ \E u \in limbLoads : LimbLoadFailed(u) /\ UNCHANGED lastOp

SpecSource == Init /\ [][NextSource]_vars

(***************************************************************************)
(* Properties.                                                             *)
(***************************************************************************)
\* The invocations of callMakeSocket whose response (or failure) is applied
\* by the step.
Answered == IF Cardinality(inflight') < Cardinality(inflight)
            THEN inflight \ inflight' ELSE {}

\* The invocations of callMakeSocket the step starts.
Started == IF Cardinality(inflight') > Cardinality(inflight)
           THEN {r \in inflight' : ~r.superseded} ELSE {}

\* C1: every make-socket response that is applied to the viewer state
\* belongs to the most recently issued request: no request that a later one
\* has superseded ever gets its response applied.
C1_OnlyLatestResponseApplied ==
    [][\A r \in Answered : ~r.superseded]_vars

\* C1 witness: a second request has been answered after a first one was:
\* the transform of an earlier response (scale 2) is still in place while
\* apiResult holds a later response without scale_applied.
C1_Witness ==
    /\ inflight = {}
    /\ ~busy
    /\ IsSome(apiResult) /\ ~Val(apiResult).error
    /\ Val(apiResult).scale_applied = None
    /\ IsSome(socketUrl)
    /\ IsSome(socketTransform)
    /\ Val(socketTransform).serverScale = Some(Rat(2, 1))

\* C2: a limb load that produces a new normalization leaves the mark
\* sequence empty.
C2_MarksEmptyAfterLimbLoad ==
    [][(lastOp' = "limbLoaded" /\ limbTransform' # limbTransform)
          => marks' = <<>>]_vars

\* C3: append keeps the earlier marks in order and adds one at the end;
\* removeLast drops exactly the last mark and leaves an empty sequence
\* empty; clear yields the empty sequence.
C3_MarkStack ==
    [][/\ lastOp' = "append" =>
            /\ Len(marks') = Len(marks) + 1
            /\ SubSeq(marks', 1, Len(marks)) = marks
       /\ lastOp' = "removeLast" =>
            IF marks = <<>> THEN marks' = <<>>
            ELSE /\ Len(marks') = Len(marks) - 1
                 /\ \A i \in 1..Len(marks') : marks'[i] = marks[i]
       /\ lastOp' = "clear" => marks' = <<>>]_vars

\* C3 witness: removeLast has just turned three marks into two distinct ones.
C3_Witness ==
    /\ lastOp = "removeLast"
    /\ Len(marks) = 2
    /\ marks[1] # marks[2]

\* pointToMillimeters as the claim states it: undo the normalization, apply
\* the inverse permutation when the axis flag is set, multiply by the
\* server's scale (1 if absent).
ClaimedPointToMillimeters(p, lt, zUp, api) ==
    LET native == VAdd(VMulScalar(p, RDiv(One, UnitScaleOf(lt))), UnitCenterOf(lt))
        src == IF zUp THEN <<native[1], RNeg(native[3]), native[2]>> ELSE native
        applied == IF IsSome(api) /\ IsSome(Val(api).scale_applied)
                   THEN Val(Val(api).scale_applied) ELSE One
    IN  VMulScalar(src, applied)

\* C4: the payload of a request has one entry per mark, in order, with the
\* mark's kind, radius and amount and centerMm = pointToMillimeters(vpos),
\* axis permutation included.
C4_PayloadIsPointToMillimeters ==
    [][\A r \in Started : IsSome(r.marksJson) =>
          /\ Len(Val(r.marksJson)) = Len(marks)
          /\ \A i \in 1..Len(marks) :
                /\ Val(r.marksJson)[i].type = marks[i].type
                /\ Val(r.marksJson)[i].radius_mm = marks[i].radius_mm
                /\ Val(r.marksJson)[i].amount_mm = marks[i].amount_mm
                /\ Val(r.marksJson)[i].center_mm =
                      ClaimedPointToMillimeters(marks[i].vpos, limbTransform,
                                                socketZUp, apiResult)]_vars

\* C5: building the payload leaves the marks as they were, and a second
\* export with the same normalization and server scale gives the same
\* payload.
C5_ExportIsPureRead ==
    [][\A r \in Started :
          /\ marks' = marks
          /\ IsSome(r.marksJson) =>
                Val(r.marksJson) = ExportPayload(marks', limbTransform, apiResult)]_vars

\* C5 witness: a request carrying a payload of two marks is in flight.
C5_Witness ==
    \E r \in inflight :
        /\ IsSome(r.marksJson)
        /\ Len(Val(r.marksJson)) >= 2
        /\ Len(marks) >= 2
        /\ \A i \in 1..2 : Val(r.marksJson)[i].type = marks[i].type

\* pointToDisplay as the claim states it: divide by the server's scale,
\* permute (x, y, z) -> (x, z, -y) when the axis flag is set, subtract the
\* center, multiply by the normalization scale.
ClaimedPointToDisplay(pMm, lt, zUp, applied) ==
    LET native == VMulScalar(pMm, RDiv(One, applied))
        disp == IF zUp THEN <<native[1], native[3], RNeg(native[2])>> ELSE native
    IN  VMulScalar(VSub(disp, UnitCenterOf(lt)), UnitScaleOf(lt))

\* C6: for a positive server scale, converting a mark's display position to
\* millimeters as the export does, and back to display space, returns the
\* position.
C6_RoundTrip ==
    [][\A r \in Started :
          (IsSome(r.marksJson) /\ RLt(Zero, ExportServerScale(apiResult))) =>
             \A i \in 1..Len(marks) :
                ClaimedPointToDisplay(Val(r.marksJson)[i].center_mm, limbTransform,
                                      socketZUp, ExportServerScale(apiResult))
                   = marks[i].vpos]_vars

\* C7: after a limb load the normalization is scale = 1 / max extent (1 for
\* a zero extent) and center = midpoint of the box, and every native point
\* n of the limb is shown at (n - center) * scale.
C7_LimbNormalizedAndCentered ==
    IsSome(limbScene) =>
        LET s == Val(limbScene)
            ext == VSub(s.box.max, s.box.min)
            m == RMax(ext[1], RMax(ext[2], ext[3]))
            scale == IF m = Zero THEN One ELSE RDiv(One, m)
            center == VMulScalar(VAdd(s.box.min, s.box.max), Rat(1, 2))
        IN  /\ limbTransform = Some([scale |-> scale, center |-> center])
            /\ \A n \in {s.box.min, s.box.max, center} :
                  LocalToWorld(s, n) = VMulScalar(VSub(n, center), scale)

\* C8: a response whose scale_applied is 0 or absent leaves the socket
\* aligned exactly as the same response with scale_applied = 1 would.
C8_DegenerateScaleAlignsAsOne ==
    [][\A r \in Answered :
          (/\ IsSome(apiResult')
           /\ ~Val(apiResult').error
           /\ Val(apiResult').scale_applied \in {None, Some(Zero)}) =>
             socketTransform' =
                TransformAfterResponse(
                   [Val(apiResult') EXCEPT !.scale_applied = Some(One)],
                   r.limbTransform, socketTransform)]_vars

\* The bounding-box centroid of a mesh in display space, were the mesh at
\* position pos.
CentroidAt(m, pos) ==
    BoxCenter(SetFromObject([position |-> pos, scale |-> m.scale, rotX |-> m.rotX],
                            SocketGeometry(m.url)))

\* C9: when the centroid after frame alignment is closer to the origin
\* than the threshold, the snap moves the socket so that the centroid is
\* exactly at the origin; otherwise the snap leaves the position as it was.
C9_ResidualSnap ==
    (IsSome(mesh) /\ Val(mesh).aligned) =>
        LET m == Val(mesh)
            residual == CentroidAt(m, m.preSnap)
        IN  IF RLt(VLengthSq(residual), Rat(1, 4))
            THEN CentroidAt(m, m.postSnap) = Origin
            ELSE m.postSnap = m.preSnap

\* C9 witness: a loaded socket whose residual centroid had magnitude 0.01
\* and was moved by the snap.
C9_Witness ==
    /\ IsSome(mesh)
    /\ Val(mesh).aligned
    /\ VLengthSq(CentroidAt(Val(mesh), Val(mesh).preSnap)) = Rat(1, 10000)
    /\ Val(mesh).postSnap # Val(mesh).preSnap

\* A loaded socket whose residual centroid had magnitude 10 or more.
C9_LargeResidualReached ==
    /\ IsSome(mesh)
    /\ Val(mesh).aligned
    /\ ~RLt(VLengthSq(CentroidAt(Val(mesh), Val(mesh).preSnap)), Rat(100, 1))

\* The manual offset as the claim converts it: rotate if Z-up, divide by
\* the server scale, multiply by the limb's normalization scale.
ClaimedOffset(t, zUp) ==
    LET off == t.extraOffsetMm
        rot == IF zUp THEN <<off[1], off[3], RNeg(off[2])>> ELSE off
    IN  VMulScalar(VMulScalar(rot, RDiv(One, AlignServerScale(t))),
                   IF HasUnit(t) THEN Val(t.unitScale) ELSE One)

\* C10: the final position of an aligned socket is the position after the
\* snap plus the converted manual offset, and the position after the snap
\* is the one the same transform gives with no manual offset at all.
C10_OffsetAfterSnap ==
    (IsSome(mesh) /\ Val(mesh).aligned) =>
        LET m == Val(mesh)
            plain == LoadedMesh(m.url, [m.transform EXCEPT !.extraOffsetMm = Origin],
                                m.rotX)
        IN  /\ m.position = VAdd(m.postSnap, ClaimedOffset(m.transform, m.rotX))
            /\ m.postSnap = plain.position
            /\ m.postSnap = plain.postSnap

\* C10 witness: a socket on which the snap fired and a non-zero manual
\* offset was then applied.
C10_Witness ==
    /\ IsSome(mesh)
    /\ Val(mesh).aligned
    /\ Val(mesh).postSnap # Val(mesh).preSnap
    /\ Val(mesh).transform.extraOffsetMm # Origin
    /\ Val(mesh).position # Val(mesh).postSnap

\* The object URLs created so far that have not been revoked.
LiveUrls == { u \in CreatedUrls(urlEvents) : Revocations(urlEvents, u) = 0 }

\* C11: every object URL created for a picked limb file is revoked exactly
\* once when another limb source supersedes it, and before the replacement
\* object URL is created: no object URL is revoked twice, every object URL
\* that is no longer the path has been revoked, at most one un-revoked
\* object URL exists, and each createObjectURL call comes after the
\* revocation of every object URL created before it.
C11_ObjectUrlReleasedOnceBeforeReplacement ==
    /\ \A u \in CreatedUrls(urlEvents) : Revocations(urlEvents, u) <= 1
    /\ \A u \in CreatedUrls(urlEvents) :
          u # path => Revocations(urlEvents, u) = 1
    /\ Cardinality(LiveUrls) <= 1
    /\ \A i, j \in DOMAIN urlEvents :
          (i < j /\ urlEvents[i][1] = "create" /\ urlEvents[j][1] = "create")
          => \E k \in DOMAIN urlEvents :
                k < j /\ urlEvents[k] = <<"revoke", urlEvents[i][2]>>

\* A superseded object URL that no mounted Model remembers: it is never
\* revoked from here on (reached by picking a file while the limb is hidden).
C11_LeakReached ==
    \E u \in LiveUrls : u # path /\ lastObjectUrlRef # Some(u)

\* The response body applied by the step, if the step applies one.
AppliedJson ==
    IF Answered # {} /\ IsSome(apiResult') /\ ~Val(apiResult').error
    THEN apiResult' ELSE None

\* A field of the transform SocketModel is given after the step; a null
\* socketTransform leaves every field undefined.
UsedField(field) ==
    IF IsSome(socketTransform') THEN Val(socketTransform')[field] ELSE None

\* C12: every make-socket response that supplies a socket mesh replaces the
\* socket's server transform as a whole: after it is applied, the
\* serverScale, limb center and delta the socket is placed with are those of
\* that response (scale 1 when the response has none; a transform left null
\* counts as scale 1 without center or delta), never those of an earlier one.
C12_TransformReplacedByResponse ==
    [][\A json \in {AppliedJson} :
          (IsSome(json) /\ IsSome(Val(json).socket_trimmed_url)) =>
             /\ UsedField("serverScale") \in
                   {Some(ResponseServerScale(Val(json)))} \cup
                   (IF IsSome(socketTransform') THEN {}
                    ELSE {x \in {None} : ResponseServerScale(Val(json)) = One})
             /\ UsedField("limbCenterMm") = Val(json).limb_center_mm
             /\ UsedField("deltaMm") = Val(json).delta_mm]_vars

\* C13: while a make-socket request is in flight Undo and Clear stay
\* enabled and marking is not switched off, and the marks payload of the
\* request is the export of the mark list as it was when the request was
\* issued: it is fixed at that step and no later step, a change of the mark
\* list included, alters it.
C13_MarksEditableWhileInFlight ==
    [][/\ inflight # {} =>
             /\ ENABLED PopMark
             /\ ENABLED ClearMarks
             /\ ~MarkingDisabled
       /\ \A r \in Started :
             r.marksJson \in
                {None, Some(ExportPayload(marks, limbTransform, apiResult))}
       /\ \A r \in inflight \ Answered :
             \E q \in inflight' : q.marksJson = r.marksJson]_vars

\* C13 witness: a request whose payload holds two marks is in flight and
\* the mark list has since been changed to another length.
C13_Witness ==
    \E r \in inflight :
        /\ IsSome(r.marksJson)
        /\ Len(Val(r.marksJson)) = 2
        /\ Len(marks) # 2

\* The server scales the three consumers work with in the current render:
\* the factor of the mark export, the divisor of the mark spheres' radius,
\* and the scale SocketModel undoes when it aligns the socket.
ScaleOfExport == ExportServerScale(apiResult)

ScaleOfSpheres == RadiusServerScale(apiResult)

ScaleOfAlignment == AlignServerScale(TransformProp(socketTransform, nudge))

\* C14: in every reachable state the mark export, the mark spheres and the
\* alignment of the displayed socket use the same server scale (the
\* alignment is compared whenever a socket is displayed).
C14_ServerScaleConsumersAgree ==
    /\ ScaleOfExport = ScaleOfSpheres
    /\ IsSome(socketUrl) => ScaleOfAlignment = ScaleOfSpheres

\* A socket is displayed and aligned with the scale of an earlier response
\* while the export and the spheres use 1 for a response without a scale.
C14_StaleAlignmentReached ==
    /\ IsSome(socketUrl)
    /\ ScaleOfExport = One /\ ScaleOfSpheres = One
    /\ ScaleOfAlignment = Rat(2, 1)

\* After a failed request following a response with scale 2, Apply Marks is
\* enabled and exports with scale 1.
C14_ExportAfterErrorReached ==
    /\ IsSome(apiResult) /\ Val(apiResult).error
    /\ ~ApplyDisabled
    /\ IsSome(socketTransform) /\ Val(socketTransform).serverScale = Some(Rat(2, 1))
    /\ ScaleOfExport = One

====
